---------------------------- MODULE Spec2Model ----------------------------
(***************************************************************************)
(* A model of src/services/geminiService.ts: generateRobotFromPrompt, the  *)
(* prompt adapter that answers a fixed table of trigger phrases locally,   *)
(* reports a missing credential, and otherwise sends one request to the    *)
(* generation service, extracts a JSON object from the reply text and maps *)
(* it to link and joint records.                                           *)
(*                                                                         *)
(* Text.  A JavaScript string is a sequence of UTF-16 code units, and that *)
(* is what a string is here: <<123, 125>> is the text {}.  Every literal   *)
(* is followed by a comment that spells it.                                *)
(*                                                                         *)
(* Numbers.  A JavaScript number is kept in hundredths: 157 is 1.57, 10 is *)
(* 0.1, 0 is 0.  Every default of the source is a multiple of 0.01, and    *)
(* the replies of the model only hold numerals with at most two decimals.  *)
(* -0 and 0 are not told apart (both are falsy and neither is nullish).    *)
(***************************************************************************)
EXTENDS Integers, Sequences, FiniteSets

VARIABLES
    pc,          \* where the invocation stands
    prompt,      \* the argument `prompt`
    apiKey,      \* process.env.API_KEY, as a JavaScript value
    requests,    \* ai.models.generateContent calls made by this invocation
    steps,       \* the steps this invocation has taken, in order
    response,    \* how the awaited request settled
    jsonString,  \* the local `jsonString` when the extraction ran
    result,      \* the local `result`: how JSON.parse(jsonString) ended
    returned     \* what the promise settled with

vars ==
    <<pc, prompt, apiKey, requests, steps, response, jsonString, result,
      returned>>

(***************************************************************************)
(* JavaScript values                                                       *)
(***************************************************************************)
Undefined == [t |-> "undefined"]
Null == [t |-> "null"]
Bool(b) == [t |-> "boolean", v |-> b]
Num(h) == [t |-> "number", v |-> h]
Str(s) == [t |-> "string", v |-> s]
Arr(elems) == [t |-> "array", v |-> elems]
\* An object is its list of <<key, value>> entries, in insertion order.
Obj(entries) == [t |-> "object", v |-> entries]

\* ToBoolean: what `!x`, `x || y`, `x && y` and `if (x)` test.
Truthy(x) ==
    CASE x.t = "undefined" -> FALSE
      [] x.t = "null" -> FALSE
      [] x.t = "boolean" -> x.v
      [] x.t = "number" -> x.v # 0
      [] x.t = "string" -> x.v # <<>>
      [] OTHER -> TRUE

IsNullish(x) == x.t \in {"undefined", "null"}

\* a || b
OrElse(a, b) == IF Truthy(a) THEN a ELSE b

\* a ?? b
Coalesce(a, b) == IF IsNullish(a) THEN b ELSE a

(***************************************************************************)
(* b64DecodeUnicode: atob, the byte copy, TextDecoder                      *)
(***************************************************************************)
AsciiWhitespace == {9, 10, 12, 13, 32}

B64Chars == (65..90) \cup (97..122) \cup (48..57) \cup {43, 47}

B64Value(c) ==
    IF c \in 65..90 THEN c - 65
    ELSE IF c \in 97..122 THEN c - 71
    ELSE IF c \in 48..57 THEN c + 4
    ELSE IF c = 43 THEN 62
    ELSE 63

RECURSIVE B64Groups(_)
B64Groups(s) ==
    IF Len(s) = 0 THEN <<>>
    ELSE IF Len(s) >= 4 THEN
        LET n == B64Value(s[1]) * 262144 + B64Value(s[2]) * 4096
                 + B64Value(s[3]) * 64 + B64Value(s[4])
        IN  <<n \div 65536, (n \div 256) % 256, n % 256>>
            \o B64Groups(SubSeq(s, 5, Len(s)))
    ELSE IF Len(s) = 3 THEN
        LET n == B64Value(s[1]) * 4096 + B64Value(s[2]) * 64 + B64Value(s[3])
        IN  <<n \div 1024, (n \div 4) % 256>>
    ELSE
        LET n == B64Value(s[1]) * 64 + B64Value(s[2])
        IN  <<n \div 16>>

\* atob(str): the binary string (one code unit per byte), or a throw.
atob(str) ==
    LET NotWs(c) == c \notin AsciiWhitespace
        a == SelectSeq(str, NotWs)
        b == IF Len(a) % 4 = 0 /\ Len(a) >= 2 /\ a[Len(a)] = 61
             THEN IF a[Len(a) - 1] = 61
                  THEN SubSeq(a, 1, Len(a) - 2)
                  ELSE SubSeq(a, 1, Len(a) - 1)
             ELSE a
    IN  IF Len(b) % 4 = 1 \/ \E i \in 1..Len(b) : b[i] \notin B64Chars
        THEN [threw |-> TRUE, value |-> <<>>]
        ELSE [threw |-> FALSE, value |-> B64Groups(b)]

\* One code point as UTF-16 code units.
CodeUnits(cp) ==
    IF cp > 65535
    THEN <<55296 + ((cp - 65536) \div 1024), 56320 + ((cp - 65536) % 1024)>>
    ELSE <<cp>>

\* The UTF-8 decoder of `new TextDecoder()` (not fatal): a malformed
\* sequence becomes U+FFFD and the offending byte is read again.
RECURSIVE Utf8Decode(_, _, _, _, _, _)
Utf8Decode(bytes, i, cp, needed, lower, upper) ==
    IF i > Len(bytes) THEN (IF needed # 0 THEN <<65533>> ELSE <<>>)
    ELSE LET b == bytes[i] IN
        IF needed = 0 THEN
            IF b <= 127 THEN <<b>> \o Utf8Decode(bytes, i + 1, 0, 0, 128, 191)
            ELSE IF b \in 194..223
                THEN Utf8Decode(bytes, i + 1, b % 32, 1, 128, 191)
            ELSE IF b \in 224..239
                THEN Utf8Decode(bytes, i + 1, b % 16, 2,
                                IF b = 224 THEN 160 ELSE 128,
                                IF b = 237 THEN 159 ELSE 191)
            ELSE IF b \in 240..244
                THEN Utf8Decode(bytes, i + 1, b % 8, 3,
                                IF b = 240 THEN 144 ELSE 128,
                                IF b = 244 THEN 143 ELSE 191)
            ELSE <<65533>> \o Utf8Decode(bytes, i + 1, 0, 0, 128, 191)
        ELSE IF b \notin lower..upper
            THEN <<65533>> \o Utf8Decode(bytes, i, 0, 0, 128, 191)
        ELSE IF needed = 1
            THEN CodeUnits(cp * 64 + (b % 64))
                 \o Utf8Decode(bytes, i + 1, 0, 0, 128, 191)
        ELSE Utf8Decode(bytes, i + 1, cp * 64 + (b % 64), needed - 1, 128, 191)

\* new TextDecoder().decode(bytes): UTF-8, a leading byte order mark dropped.
TextDecode(bytes) ==
    LET s == Utf8Decode(bytes, 1, 0, 0, 128, 191)
    IN  IF Len(s) > 0 /\ s[1] = 65279 THEN Tail(s) ELSE s

b64DecodeUnicode(str) ==
    LET binaryString == atob(str)
    IN  IF binaryString.threw THEN <<>> ELSE TextDecode(binaryString.value)

\* The trigger table, in the order Object.entries walks it.
EGGS == <<
    \* "6L6+5aaZ56eR5oqA": "5Y+R5p2l6LS655S1"
    << <<54, 76, 54, 43, 53, 97, 97, 90, 53, 54, 101, 82, 53, 111, 113, 65>>,
       <<53, 89, 43, 82, 53, 112, 50, 108, 54, 76, 83, 54, 53, 53, 83, 49>> >>,
    \* "54G16Laz5pe25Luj": "56Wd5L2g5oiQ5Yqf"
    << <<53, 52, 71, 49, 54, 76, 97, 122, 53, 112, 101, 50, 53, 76, 117, 106>>,
       <<53, 54, 87, 100, 53, 76, 50, 103, 53, 111, 105, 81, 53, 89, 113, 102>> >>,
    \* "5Zug5YWL5pav5pm66IO9": "56Wd6ICB5p2/5aW95biF77yB"
    << <<53, 90, 117, 103, 53, 89, 87, 76, 53, 112, 97, 118, 53, 112, 109, 54,
         54, 73, 79, 57>>,
       <<53, 54, 87, 100, 54, 73, 67, 66, 53, 112, 50, 47, 53, 97, 87, 57, 53,
         98, 105, 70, 55, 55, 121, 66>> >>,
    \* "6auY5pOO5py655S1": "5oiR54ix5bCP5rS+77yB"
    << <<54, 97, 117, 89, 53, 112, 79, 79, 53, 112, 121, 54, 53, 53, 83, 49>>,
       <<53, 111, 105, 82, 53, 52, 105, 120, 53, 98, 67, 80, 53, 114, 83, 43,
         55, 55, 121, 66>> >>,
    \* "5Zyw55Oc5py65LmZ5Lq6": "5Y+R5p2l54Oo5Zyw55Oc"
    << <<53, 90, 121, 119, 53, 53, 79, 99, 53, 112, 121, 54, 53, 76, 109, 90,
         53, 76, 113, 54>>,
       <<53, 89, 43, 82, 53, 112, 50, 108, 53, 52, 79, 111, 53, 90, 121, 119,
         53, 53, 79, 99>> >>
>>

(***************************************************************************)
(* String.prototype.trim                                                   *)
(***************************************************************************)
\* WhiteSpace and LineTerminator of ECMAScript.
JsWhitespace ==
    {9, 10, 11, 12, 13, 32, 160, 5760, 8232, 8233, 8239, 8287, 12288, 65279}
    \cup (8192..8202)

RECURSIVE TrimStart(_)
TrimStart(s) ==
    IF Len(s) > 0 /\ s[1] \in JsWhitespace THEN TrimStart(Tail(s)) ELSE s

RECURSIVE TrimEnd(_)
TrimEnd(s) ==
    IF Len(s) > 0 /\ s[Len(s)] \in JsWhitespace
    THEN TrimEnd(SubSeq(s, 1, Len(s) - 1))
    ELSE s

Trim(s) == TrimEnd(TrimStart(s))

(***************************************************************************)
(* JSON.parse                                                              *)
(***************************************************************************)
JsonWhitespace == {9, 10, 13, 32}

\* The code unit at position i, or -1 past the end.
At(s, i) == IF i >= 1 /\ i <= Len(s) THEN s[i] ELSE -1

RECURSIVE SkipWs(_, _)
SkipWs(s, i) == IF At(s, i) \in JsonWhitespace THEN SkipWs(s, i + 1) ELSE i

RECURSIVE DigitsEnd(_, _)
DigitsEnd(s, i) == IF At(s, i) \in 48..57 THEN DigitsEnd(s, i + 1) ELSE i

\* The number the digits s[i..j-1] spell after `acc`.
RECURSIVE DigitsValue(_, _, _, _)
DigitsValue(s, i, j, acc) ==
    IF i >= j THEN acc ELSE DigitsValue(s, i + 1, j, acc * 10 + (s[i] - 48))

RECURSIVE Pow10(_)
Pow10(n) == IF n = 0 THEN 1 ELSE 10 * Pow10(n - 1)

ParseFail == [ok |-> FALSE, val |-> Undefined, pos |-> 0]
ParseOk(v, p) == [ok |-> TRUE, val |-> v, pos |-> p]

\* number: -? (0 | [1-9][0-9]*) (. [0-9]+)? ([eE] [+-]? [0-9]+)?
\* The value is in hundredths (a numeral with more decimals is cut there).
ParseNumber(s, i) ==
    LET neg == At(s, i) = 45
        a == IF neg THEN i + 1 ELSE i
        b == DigitsEnd(s, a)
        intOk == b > a /\ (At(s, a) = 48 => b = a + 1)
        hasFrac == At(s, b) = 46
        c == IF hasFrac THEN DigitsEnd(s, b + 1) ELSE b
        fracOk == hasFrac => c > b + 1
        hasExp == At(s, c) \in {101, 69}
        es == IF At(s, c + 1) \in {43, 45} THEN c + 2 ELSE c + 1
        d == IF hasExp THEN DigitsEnd(s, es) ELSE c
        expOk == hasExp => d > es
        digits == DigitsValue(s, b + 1, c, DigitsValue(s, a, b, 0))
        fracLen == IF hasFrac THEN c - (b + 1) ELSE 0
        expAbs == IF hasExp THEN DigitsValue(s, es, d, 0) ELSE 0
        exp == IF At(s, c + 1) = 45 THEN 0 - expAbs ELSE expAbs
        shift == exp + 2 - fracLen
        mag == IF shift >= 0 THEN digits * Pow10(shift)
               ELSE digits \div Pow10(0 - shift)
    IN  IF intOk /\ fracOk /\ expOk
        THEN ParseOk(Num(IF neg THEN 0 - mag ELSE mag), d)
        ELSE ParseFail

HexValue(c) ==
    IF c \in 48..57 THEN c - 48
    ELSE IF c \in 65..70 THEN c - 55
    ELSE IF c \in 97..102 THEN c - 87
    ELSE -1

\* The characters of a string after its opening quote at i - 1.
RECURSIVE ParseString(_, _, _)
ParseString(s, i, acc) ==
    LET c == At(s, i) e == At(s, i + 1) IN
    IF c = 34 THEN ParseOk(acc, i + 1)
    ELSE IF c < 32 THEN ParseFail
    ELSE IF c # 92 THEN ParseString(s, i + 1, Append(acc, c))
    ELSE IF e \in {34, 92, 47} THEN ParseString(s, i + 2, Append(acc, e))
    ELSE IF e = 98 THEN ParseString(s, i + 2, Append(acc, 8))
    ELSE IF e = 102 THEN ParseString(s, i + 2, Append(acc, 12))
    ELSE IF e = 110 THEN ParseString(s, i + 2, Append(acc, 10))
    ELSE IF e = 114 THEN ParseString(s, i + 2, Append(acc, 13))
    ELSE IF e = 116 THEN ParseString(s, i + 2, Append(acc, 9))
    ELSE IF e = 117 /\ \A k \in 2..5 : HexValue(At(s, i + k)) >= 0
        THEN ParseString(s, i + 6,
                 Append(acc, HexValue(s[i + 2]) * 4096 + HexValue(s[i + 3]) * 256
                             + HexValue(s[i + 4]) * 16 + HexValue(s[i + 5])))
    ELSE ParseFail

\* o[k] = v on a list of entries: a key already there keeps its place.
SetEntry(entries, k, v) ==
    IF \E n \in 1..Len(entries) : entries[n][1] = k
    THEN [n \in 1..Len(entries) |->
             IF entries[n][1] = k THEN <<k, v>> ELSE entries[n]]
    ELSE Append(entries, <<k, v>>)

IsLiteral(s, i, word) ==
    /\ i + Len(word) - 1 <= Len(s)
    /\ SubSeq(s, i, i + Len(word) - 1) = word

RECURSIVE ParseValue(_, _), ParseMembers(_, _, _), ParseElements(_, _, _)

ParseValue(s, i0) ==
    LET i == SkipWs(s, i0)
        c == At(s, i)
    IN  CASE c = 123 ->
                LET j == SkipWs(s, i + 1) IN
                IF At(s, j) = 125 THEN ParseOk(Obj(<<>>), j + 1)
                ELSE ParseMembers(s, j, <<>>)
          [] c = 91 ->
                LET j == SkipWs(s, i + 1) IN
                IF At(s, j) = 93 THEN ParseOk(Arr(<<>>), j + 1)
                ELSE ParseElements(s, j, <<>>)
          [] c = 34 ->
                LET r == ParseString(s, i + 1, <<>>) IN
                IF r.ok THEN ParseOk(Str(r.val), r.pos) ELSE ParseFail
          [] c = 45 \/ c \in 48..57 -> ParseNumber(s, i)
          [] c = 116 ->   \* true
                IF IsLiteral(s, i, <<116, 114, 117, 101>>)
                THEN ParseOk(Bool(TRUE), i + 4) ELSE ParseFail
          [] c = 102 ->   \* false
                IF IsLiteral(s, i, <<102, 97, 108, 115, 101>>)
                THEN ParseOk(Bool(FALSE), i + 5) ELSE ParseFail
          [] c = 110 ->   \* null
                IF IsLiteral(s, i, <<110, 117, 108, 108>>)
                THEN ParseOk(Null, i + 4) ELSE ParseFail
          [] OTHER -> ParseFail

\* "key" : value, then `,` and another member or `}`; i is at the key.
ParseMembers(s, i, acc) ==
    IF At(s, i) # 34 THEN ParseFail ELSE
    LET k == ParseString(s, i + 1, <<>>) IN
    IF ~k.ok THEN ParseFail ELSE
    LET j == SkipWs(s, k.pos) IN
    IF At(s, j) # 58 THEN ParseFail ELSE
    LET v == ParseValue(s, j + 1) IN
    IF ~v.ok THEN ParseFail ELSE
    LET m == SkipWs(s, v.pos)
        acc2 == SetEntry(acc, k.val, v.val)
    IN  IF At(s, m) = 44 THEN ParseMembers(s, SkipWs(s, m + 1), acc2)
        ELSE IF At(s, m) = 125 THEN ParseOk(Obj(acc2), m + 1)
        ELSE ParseFail

\* value, then `,` and another element or `]`.
ParseElements(s, i, acc) ==
    LET v == ParseValue(s, i) IN
    IF ~v.ok THEN ParseFail ELSE
    LET m == SkipWs(s, v.pos)
        acc2 == Append(acc, v.val)
    IN  IF At(s, m) = 44 THEN ParseElements(s, m + 1, acc2)
        ELSE IF At(s, m) = 93 THEN ParseOk(Arr(acc2), m + 1)
        ELSE ParseFail

\* JSON.parse(text): the value, or a SyntaxError.
JsonParse(text) ==
    LET r == ParseValue(text, 1) IN
    IF r.ok /\ SkipWs(text, r.pos) = Len(text) + 1
    THEN [threw |-> FALSE, value |-> r.val]
    ELSE [threw |-> TRUE, value |-> Undefined]

(***************************************************************************)
(* The property names and string literals of the source                    *)
(***************************************************************************)
P_robotData == <<114, 111, 98, 111, 116, 68, 97, 116, 97>>   \* "robotData"
P_explanation == <<101, 120, 112, 108, 97, 110, 97, 116, 105, 111, 110>>   \* "explanation"
P_actionType == <<97, 99, 116, 105, 111, 110, 84, 121, 112, 101>>   \* "actionType"
P_links == <<108, 105, 110, 107, 115>>   \* "links"
P_joints == <<106, 111, 105, 110, 116, 115>>   \* "joints"
P_name == <<110, 97, 109, 101>>   \* "name"
P_rootLinkId == <<114, 111, 111, 116, 76, 105, 110, 107, 73, 100>>   \* "rootLinkId"
P_id == <<105, 100>>   \* "id"
P_visualType == <<118, 105, 115, 117, 97, 108, 84, 121, 112, 101>>   \* "visualType"
P_dimensions == <<100, 105, 109, 101, 110, 115, 105, 111, 110, 115>>   \* "dimensions"
P_mass == <<109, 97, 115, 115>>   \* "mass"
P_color == <<99, 111, 108, 111, 114>>   \* "color"
P_type == <<116, 121, 112, 101>>   \* "type"
P_parentLinkId == <<112, 97, 114, 101, 110, 116, 76, 105, 110, 107, 73, 100>>   \* "parentLinkId"
P_childLinkId == <<99, 104, 105, 108, 100, 76, 105, 110, 107, 73, 100>>   \* "childLinkId"
P_originXYZ == <<111, 114, 105, 103, 105, 110, 88, 89, 90>>   \* "originXYZ"
P_originRPY == <<111, 114, 105, 103, 105, 110, 82, 80, 89>>   \* "originRPY"
P_axis == <<97, 120, 105, 115>>   \* "axis"
P_lowerLimit == <<108, 111, 119, 101, 114, 76, 105, 109, 105, 116>>   \* "lowerLimit"
P_upperLimit == <<117, 112, 112, 101, 114, 76, 105, 109, 105, 116>>   \* "upperLimit"
P_effortLimit == <<101, 102, 102, 111, 114, 116, 76, 105, 109, 105, 116>>   \* "effortLimit"
P_velocityLimit == <<118, 101, 108, 111, 99, 105, 116, 121, 76, 105, 109, 105, 116>>   \* "velocityLimit"
P_motorType == <<109, 111, 116, 111, 114, 84, 121, 112, 101>>   \* "motorType"
S_advice == <<97, 100, 118, 105, 99, 101>>   \* "advice"
\* "API Key is missing. Please configure the environment."
S_ApiKeyMissing ==
    <<65, 80, 73, 32, 75, 101, 121, 32, 105, 115, 32, 109, 105, 115, 115,
    105, 110, 103, 46, 32, 80, 108, 101, 97, 115, 101, 32, 99, 111, 110,
    102, 105, 103, 117, 114, 101, 32, 116, 104, 101, 32, 101, 110, 118, 105,
    114, 111, 110, 109, 101, 110, 116, 46>>
S_blue == <<35, 51, 98, 56, 50, 102, 54>>   \* "#3b82f6"
S_red == <<35, 101, 102, 52, 52, 52, 52>>   \* "#ef4444"
S_None == <<78, 111, 110, 101>>   \* "None"
\* "modified_robot"
S_modified_robot ==
    <<109, 111, 100, 105, 102, 105, 101, 100, 95, 114, 111, 98, 111, 116>>
S_undefined == <<117, 110, 100, 101, 102, 105, 110, 101, 100>>   \* "undefined"
S_null == <<110, 117, 108, 108>>   \* "null"
S_true == <<116, 114, 117, 101>>   \* "true"
S_false == <<102, 97, 108, 115, 101>>   \* "false"
\* "[object Object]"
S_objectObject ==
    <<91, 111, 98, 106, 101, 99, 116, 32, 79, 98, 106, 101, 99, 116, 93>>
S_json == <<106, 115, 111, 110>>   \* "json"
S_fence == <<96, 96, 96>>   \* three backticks
S_modification == <<109, 111, 100, 105, 102, 105, 99, 97, 116, 105, 111, 110>>   \* "modification"
S_generation == <<103, 101, 110, 101, 114, 97, 116, 105, 111, 110>>   \* "generation"

(***************************************************************************)
(* Property reads                                                          *)
(***************************************************************************)
\* x.key for x neither undefined nor null (those throw a TypeError, which
\* the callers test first).  None of the names the source reads is a
\* property of a string, number, boolean or array.
Get(x, key) ==
    IF x.t = "object" /\ \E n \in 1..Len(x.v) : x.v[n][1] = key
    THEN x.v[CHOOSE n \in 1..Len(x.v) : x.v[n][1] = key][2]
    ELSE Undefined

\* The decimal digits of a natural number.
RECURSIVE NatToString(_)
NatToString(n) ==
    IF n < 10 THEN <<48 + n>> ELSE NatToString(n \div 10) \o <<48 + (n % 10)>>

\* Number::toString of a number kept in hundredths.
NumberToString(h) ==
    LET a == IF h < 0 THEN 0 - h ELSE h
        frac == a % 100
    IN  (IF h < 0 THEN <<45>> ELSE <<>>)
        \o NatToString(a \div 100)
        \o (IF frac = 0 THEN <<>>
            ELSE IF frac % 10 = 0 THEN <<46, 48 + (frac \div 10)>>
            ELSE <<46, 48 + (frac \div 10), 48 + (frac % 10)>>)

\* JsToString(x), as a computed property key `o[x]` applies it.
RECURSIVE JsToString(_), Join(_, _)
JsToString(x) ==
    CASE x.t = "undefined" -> S_undefined
      [] x.t = "null" -> S_null
      [] x.t = "boolean" -> IF x.v THEN S_true ELSE S_false
      [] x.t = "number" -> NumberToString(x.v)
      [] x.t = "string" -> x.v
      [] x.t = "array" -> Join(x.v, 1)
      [] OTHER -> S_objectObject

\* Array.prototype.join(","), from element n on.
Join(elems, n) ==
    IF n > Len(elems) THEN <<>>
    ELSE (IF IsNullish(elems[n]) THEN <<>> ELSE JsToString(elems[n]))
         \o (IF n < Len(elems) THEN <<44>> ELSE <<>>)
         \o Join(elems, n + 1)

\* x?.[n] for a literal index n (0-based, as in the source).
OptIndex(x, n) ==
    CASE IsNullish(x) -> Undefined
      [] x.t = "array" -> IF n + 1 <= Len(x.v) THEN x.v[n + 1] ELSE Undefined
      [] x.t = "string" ->
            IF n + 1 <= Len(x.v) THEN Str(<<x.v[n + 1]>>) ELSE Undefined
      [] x.t = "object" -> Get(x, NatToString(n))
      [] OTHER -> Undefined

\* o[k] = v on a Record<string, any>; the order of its keys is not kept.
Put(o, k, v) == [x \in DOMAIN o \cup {k} |-> IF x = k THEN v ELSE o[x]]

EmptyRecord == [x \in {} |-> Undefined]

(***************************************************************************)
(* The JSON extraction                                                     *)
(***************************************************************************)
HasAt(text, i, word) ==
    /\ i >= 1
    /\ i + Len(word) - 1 <= Len(text)
    /\ SubSeq(text, i, i + Len(word) - 1) = word

\* How many characters from p on the class \s takes.
RECURSIVE WsRun(_, _)
WsRun(text, p) ==
    IF At(text, p) \in JsWhitespace THEN 1 + WsRun(text, p + 1) ELSE 0

NoMatch == [matched |-> FALSE, group |-> <<>>]

\* \s*``` at e: the greedy \s* gives characters back until the fence fits.
TailMatches(text, e) ==
    \E w \in 0..WsRun(text, e) : HasAt(text, e + w, S_fence)

\* ([\s\S]*?)\s*``` from c0: the lazy group grows one character at a time.
LazyGroup(text, c0) ==
    LET fits == {m \in 0..(Len(text) + 1 - c0) : TailMatches(text, c0 + m)}
    IN  IF fits = {} THEN NoMatch
        ELSE LET m == CHOOSE x \in fits : \A y \in fits : x <= y
             IN  [matched |-> TRUE, group |-> SubSeq(text, c0, c0 + m - 1)]

\* \s*([\s\S]*?)\s*``` from p with the first \s* taking k characters,
\* then k - 1, ... down to none.
RECURSIVE GreedyWs(_, _, _)
GreedyWs(text, p, k) ==
    LET r == LazyGroup(text, p + k)
    IN  IF r.matched \/ k = 0 THEN r ELSE GreedyWs(text, p, k - 1)

\* The pattern anchored at i: (?:json)? tries the tag first, then without.
MatchAt(text, i) ==
    IF ~HasAt(text, i, S_fence) THEN NoMatch
    ELSE LET tagged == IF HasAt(text, i + 3, S_json)
                       THEN GreedyWs(text, i + 7, WsRun(text, i + 7))
                       ELSE NoMatch
         IN  IF tagged.matched THEN tagged
             ELSE GreedyWs(text, i + 3, WsRun(text, i + 3))

\* text.match(/```(?:json)?\s*([\s\S]*?)\s*```/): the leftmost match.
JsonBlockMatch(text) ==
    LET starts == {i \in 1..Len(text) : MatchAt(text, i).matched}
    IN  IF starts = {} THEN NoMatch
        ELSE MatchAt(text, CHOOSE i \in starts : \A j \in starts : i <= j)

\* text.indexOf(c) and text.lastIndexOf(c), 0-based, -1 when absent.
IndexOf(text, c) ==
    LET at == {i \in 1..Len(text) : text[i] = c}
    IN  IF at = {} THEN -1 ELSE (CHOOSE i \in at : \A j \in at : i <= j) - 1

LastIndexOf(text, c) ==
    LET at == {i \in 1..Len(text) : text[i] = c}
    IN  IF at = {} THEN -1 ELSE (CHOOSE i \in at : \A j \in at : i >= j) - 1

\* text.substring(a, b) for 0 <= a <= b <= text.length.
Substring(text, a, b) == SubSeq(text, a + 1, b)

\* The same with the brace span tried when the fenced block is empty.
ExtractJsonFallThrough(text) ==
    LET jsonBlockMatch == JsonBlockMatch(text)
        firstOpen == IndexOf(text, 123)
        lastClose == LastIndexOf(text, 125)
    IN  IF jsonBlockMatch.matched /\ jsonBlockMatch.group # <<>>
        THEN jsonBlockMatch.group
        ELSE IF firstOpen # -1 /\ lastClose # -1 /\ lastClose > firstOpen
             THEN Substring(text, firstOpen, lastClose + 1)
        ELSE <<>>

\* The value of `jsonString` at line 183.
ExtractJson(text) ==
    LET jsonBlockMatch == JsonBlockMatch(text)
        firstOpen == IndexOf(text, 123)
        lastClose == LastIndexOf(text, 125)
    IN  IF jsonBlockMatch.matched THEN jsonBlockMatch.group
        ELSE IF firstOpen # -1 /\ lastClose # -1 /\ lastClose > firstOpen
             THEN Substring(text, firstOpen, lastClose + 1)
        ELSE <<>>

(***************************************************************************)
(* The robot data mapper                                                   *)
(***************************************************************************)
Threw == [threw |-> TRUE, value |-> Undefined]
Returned(v) == [threw |-> FALSE, value |-> v]

ZeroOrigin ==
    [xyz |-> [x |-> Num(0), y |-> Num(0), z |-> Num(0)],
     rpy |-> [r |-> Num(0), p |-> Num(0), y |-> Num(0)]]

\* const dimensions = { x: l.dimensions?.[0] || 0.1, ... }
LinkDimensions(l) ==
    [x |-> OrElse(OptIndex(Get(l, P_dimensions), 0), Num(10)),
     y |-> OrElse(OptIndex(Get(l, P_dimensions), 1), Num(10)),
     z |-> OrElse(OptIndex(Get(l, P_dimensions), 2), Num(10))]

\* mass: l.mass || 1.0
LinkMass(l) == OrElse(Get(l, P_mass), Num(100))

\* The record stored at newLinks[l.id], for l neither undefined nor null.
LinkRecord(l) ==
    [id |-> Get(l, P_id),
     name |-> Get(l, P_name),
     inertial |->
        [mass |-> LinkMass(l),
         inertia |-> [ixx |-> Num(10), ixy |-> Num(0), ixz |-> Num(0),
                      iyy |-> Num(10), iyz |-> Num(0), izz |-> Num(10)]],
     visual |->
        [type |-> Get(l, P_visualType),
         dimensions |-> LinkDimensions(l),
         color |-> OrElse(Get(l, P_color), Str(S_blue)),
         origin |-> ZeroOrigin],
     collision |->
        [type |-> Get(l, P_visualType),
         dimensions |-> LinkDimensions(l),
         color |-> Str(S_red),
         origin |-> ZeroOrigin]]

\* origin: { xyz: { x: j.originXYZ?.[0] || 0, ... }, rpy: { ... } }
JointOrigin(j) ==
    [xyz |-> [x |-> OrElse(OptIndex(Get(j, P_originXYZ), 0), Num(0)),
              y |-> OrElse(OptIndex(Get(j, P_originXYZ), 1), Num(0)),
              z |-> OrElse(OptIndex(Get(j, P_originXYZ), 2), Num(0))],
     rpy |-> [r |-> OrElse(OptIndex(Get(j, P_originRPY), 0), Num(0)),
              p |-> OrElse(OptIndex(Get(j, P_originRPY), 1), Num(0)),
              y |-> OrElse(OptIndex(Get(j, P_originRPY), 2), Num(0))]]

\* axis: { x: j.axis?.[0] || 0, y: j.axis?.[1] || 0, z: j.axis?.[2] || 1 }
JointAxis(j) ==
    [x |-> OrElse(OptIndex(Get(j, P_axis), 0), Num(0)),
     y |-> OrElse(OptIndex(Get(j, P_axis), 1), Num(0)),
     z |-> OrElse(OptIndex(Get(j, P_axis), 2), Num(100))]

\* The same with a truthiness test in place of ??.
JointLimitTruthy(j) ==
    [lower |-> OrElse(Get(j, P_lowerLimit), Num(-157)),
     upper |-> OrElse(Get(j, P_upperLimit), Num(157)),
     effort |-> OrElse(Get(j, P_effortLimit), Num(10000)),
     velocity |-> OrElse(Get(j, P_velocityLimit), Num(1000))]

\* limit: { lower: j.lowerLimit ?? -1.57, upper: j.upperLimit ?? 1.57,
\*          effort: j.effortLimit ?? 100, velocity: j.velocityLimit ?? 10 }
JointLimit(j) ==
    [lower |-> Coalesce(Get(j, P_lowerLimit), Num(-157)),
     upper |-> Coalesce(Get(j, P_upperLimit), Num(157)),
     effort |-> Coalesce(Get(j, P_effortLimit), Num(10000)),
     velocity |-> Coalesce(Get(j, P_velocityLimit), Num(1000))]

\* The record stored at newJoints[j.id], for j neither undefined nor null.
JointRecord(j) ==
    [id |-> Get(j, P_id),
     name |-> Get(j, P_name),
     type |-> Get(j, P_type),
     parentLinkId |-> Get(j, P_parentLinkId),
     childLinkId |-> Get(j, P_childLinkId),
     origin |-> JointOrigin(j),
     axis |-> JointAxis(j),
     limit |-> JointLimit(j),
     dynamics |-> [damping |-> Num(0), friction |-> Num(0)],
     hardware |->
        [armature |-> Num(0),
         motorType |-> OrElse(Get(j, P_motorType), Str(S_None)),
         motorId |-> Str(<<>>),
         motorDirection |-> Num(100)]]

\* data.links.forEach(l => { newLinks[l.id] = ... }) from element n on.
\* Reading a property of a null element throws.
RECURSIVE ForEachLink(_, _, _)
ForEachLink(list, n, newLinks) ==
    IF n > Len(list) THEN Returned(newLinks)
    ELSE IF IsNullish(list[n]) THEN Threw
    ELSE ForEachLink(list, n + 1,
             Put(newLinks, JsToString(Get(list[n], P_id)), LinkRecord(list[n])))

\* data.joints.forEach(j => { newJoints[j.id] = ... }) from element n on.
RECURSIVE ForEachJoint(_, _, _)
ForEachJoint(list, n, newJoints) ==
    IF n > Len(list) THEN Returned(newJoints)
    ELSE IF IsNullish(list[n]) THEN Threw
    ELSE ForEachJoint(list, n + 1,
             Put(newJoints, JsToString(Get(list[n], P_id)), JointRecord(list[n])))

\* if (data.links && Array.isArray(data.links)) { ... }
MapLinks(data) ==
    LET links == Get(data, P_links)
    IN  IF Truthy(links) /\ links.t = "array"
        THEN ForEachLink(links.v, 1, EmptyRecord)
        ELSE Returned(EmptyRecord)

\* if (data.joints && Array.isArray(data.joints)) { ... }
MapJoints(data) ==
    LET joints == Get(data, P_joints)
    IN  IF Truthy(joints) /\ joints.t = "array"
        THEN ForEachJoint(joints.v, 1, EmptyRecord)
        ELSE Returned(EmptyRecord)

\* The same with a robot built for every reply.
HasDataAlways(data) == TRUE

\* if (data)
HasData(data) == Truthy(data)

\* finalRobotState after line 259: undefined, or the robot built from data.
FinalRobotState(data) ==
    IF ~HasData(data) THEN Returned(Undefined)
    ELSE LET newLinks == MapLinks(data)
             newJoints == MapJoints(data)
         IN  IF newLinks.threw \/ newJoints.threw THEN Threw
             ELSE Returned([t |-> "RobotState",
                            name |-> OrElse(Get(data, P_name),
                                            Str(S_modified_robot)),
                            links |-> newLinks.value,
                            joints |-> newJoints.value,
                            rootLinkId |-> Get(data, P_rootLinkId)])

AIResponse(explanation, actionType, robotData) ==
    [t |-> "AIResponse", explanation |-> explanation,
     actionType |-> actionType, robotData |-> robotData]

\* Lines 186-265: map the parsed reply and build the return value.
\* result.robotData throws when JSON.parse gave null.
MapResult(res) ==
    IF IsNullish(res) THEN Threw
    ELSE IF FinalRobotState(Get(res, P_robotData)).threw THEN Threw
    ELSE Returned(AIResponse(Get(res, P_explanation),
                             Get(res, P_actionType),
                             FinalRobotState(Get(res, P_robotData)).value))

(***************************************************************************)
(* Inputs: prompts, credentials, replies                                   *)
(*                                                                         *)
(* In the comments that spell a reply, (fence) stands for three backticks  *)
(* and \n for a line feed.                                                 *)
(***************************************************************************)
\* How many whitespace characters are put on each side of a prompt.
MaxPad == 1

\* n copies of the code unit c.
Repeat(c, n) == [i \in 1..n |-> c]

LeadingPads == {Repeat(32, n) : n \in 0..MaxPad}       \* spaces
TrailingPads == {Repeat(12288, n) : n \in 0..MaxPad}   \* ideographic spaces

\* The five trigger phrases as a user types them, and phrases near them.
PromptBases == {
    <<36798, 22937, 31185, 25216>>,   \* 达妙科技
    <<28789, 36275, 26102, 20195>>,   \* 灵足时代
    <<22240, 20811, 26031, 26234, 33021>>,   \* 因克斯智能
    <<39640, 25806, 26426, 30005>>,   \* 高擎机电
    <<22320, 29916, 26426, 20057, 20154>>,   \* 地瓜机乙人
    <<>>,   \* the empty prompt
    <<36798, 22937, 31185>>,   \* 达妙科 (a phrase cut short)
    <<36798, 22937, 31185, 25216, 33>>,   \* 达妙科技! (a phrase and more)
    <<28789, 36275, 32, 26102, 20195>>,   \* 灵足 时代 (a space inside)
    <<54, 76, 54, 43, 53, 97, 97, 90, 53, 54, 101, 82, 53, 111, 113, 65>>,   \* 6L6+5aaZ56eR5oqA (a key of the table, undecoded)
    <<21457, 26469, 36154, 30005>>,   \* 发来贺电 (an answer of the table)
    <<97, 100, 100, 32, 97, 32, 108, 105, 100, 97, 114>>,   \* add a lidar
    <<10, 9, 39640, 25806, 26426, 30005, 13, 10, 65279>>,
        \* a phrase after \n \t and before \r \n U+FEFF
    <<160, 8195>>   \* a no-break space and an em space
}

Prompts ==
    {l \o b \o r : l \in LeadingPads, b \in PromptBases, r \in TrailingPads}

\* process.env.API_KEY: unset, set to the empty string, set.
ApiKeys == {Undefined, Str(<<>>), Str(<<107>>)}

\* (fence)json\n{"explanation":"ok","actionType":"generation","robotData"
\* :{"name":"r1","links":[{"id":"l1","name":"base","visualType":"box","di
\* mensions":[1,2,3],"color":"#fff","mass":2}],"joints":[],"rootLinkId":"
\* l1"}}\n(fence)
R_SpecExample ==
    <<96, 96, 96, 106, 115, 111, 110, 10, 123, 34, 101, 120, 112, 108, 97,
    110, 97, 116, 105, 111, 110, 34, 58, 34, 111, 107, 34, 44, 34, 97, 99,
    116, 105, 111, 110, 84, 121, 112, 101, 34, 58, 34, 103, 101, 110, 101,
    114, 97, 116, 105, 111, 110, 34, 44, 34, 114, 111, 98, 111, 116, 68, 97,
    116, 97, 34, 58, 123, 34, 110, 97, 109, 101, 34, 58, 34, 114, 49, 34,
    44, 34, 108, 105, 110, 107, 115, 34, 58, 91, 123, 34, 105, 100, 34, 58,
    34, 108, 49, 34, 44, 34, 110, 97, 109, 101, 34, 58, 34, 98, 97, 115,
    101, 34, 44, 34, 118, 105, 115, 117, 97, 108, 84, 121, 112, 101, 34, 58,
    34, 98, 111, 120, 34, 44, 34, 100, 105, 109, 101, 110, 115, 105, 111,
    110, 115, 34, 58, 91, 49, 44, 50, 44, 51, 93, 44, 34, 99, 111, 108, 111,
    114, 34, 58, 34, 35, 102, 102, 102, 34, 44, 34, 109, 97, 115, 115, 34,
    58, 50, 125, 93, 44, 34, 106, 111, 105, 110, 116, 115, 34, 58, 91, 93,
    44, 34, 114, 111, 111, 116, 76, 105, 110, 107, 73, 100, 34, 58, 34, 108,
    49, 34, 125, 125, 10, 96, 96, 96>>

\* Sure: {"explanation":"x","actionType":"advice"} Done.
R_Prose ==
    <<83, 117, 114, 101, 58, 32, 123, 34, 101, 120, 112, 108, 97, 110, 97,
    116, 105, 111, 110, 34, 58, 34, 120, 34, 44, 34, 97, 99, 116, 105, 111,
    110, 84, 121, 112, 101, 34, 58, 34, 97, 100, 118, 105, 99, 101, 34, 125,
    32, 68, 111, 110, 101, 46>>

\* I cannot help with that.
R_NoBraces ==
    <<73, 32, 99, 97, 110, 110, 111, 116, 32, 104, 101, 108, 112, 32, 119,
    105, 116, 104, 32, 116, 104, 97, 116, 46>>

\* (fence)json(fence)
R_EmptyFence ==
    <<96, 96, 96, 106, 115, 111, 110, 96, 96, 96>>

\* (fence)json\n(fence) {"explanation":"x","actionType":"advice"}
R_EmptyFenceThenObject ==
    <<96, 96, 96, 106, 115, 111, 110, 10, 96, 96, 96, 32, 123, 34, 101, 120,
    112, 108, 97, 110, 97, 116, 105, 111, 110, 34, 58, 34, 120, 34, 44, 34,
    97, 99, 116, 105, 111, 110, 84, 121, 112, 101, 34, 58, 34, 97, 100, 118,
    105, 99, 101, 34, 125>>

\* Here:\n(fence)\n{"explanation":"x","actionType":"modification"}\n(fenc
\* e)\nBye {}
R_FenceNoTag ==
    <<72, 101, 114, 101, 58, 10, 96, 96, 96, 10, 123, 34, 101, 120, 112,
    108, 97, 110, 97, 116, 105, 111, 110, 34, 58, 34, 120, 34, 44, 34, 97,
    99, 116, 105, 111, 110, 84, 121, 112, 101, 34, 58, 34, 109, 111, 100,
    105, 102, 105, 99, 97, 116, 105, 111, 110, 34, 125, 10, 96, 96, 96, 10,
    66, 121, 101, 32, 123, 125>>

\* (fence)js\n{"explanation":"x","actionType":"advice"}\n(fence)
R_FenceOtherTag ==
    <<96, 96, 96, 106, 115, 10, 123, 34, 101, 120, 112, 108, 97, 110, 97,
    116, 105, 111, 110, 34, 58, 34, 120, 34, 44, 34, 97, 99, 116, 105, 111,
    110, 84, 121, 112, 101, 34, 58, 34, 97, 100, 118, 105, 99, 101, 34, 125,
    10, 96, 96, 96>>

\* (fence)json\n{"explanation":"x","actionType":"advice"}
R_UnclosedFence ==
    <<96, 96, 96, 106, 115, 111, 110, 10, 123, 34, 101, 120, 112, 108, 97,
    110, 97, 116, 105, 111, 110, 34, 58, 34, 120, 34, 44, 34, 97, 99, 116,
    105, 111, 110, 84, 121, 112, 101, 34, 58, 34, 97, 100, 118, 105, 99,
    101, 34, 125>>

\* (fence)json {"explanation":"a","actionType":"advice"} (fence) 
\* (fence){}(fence)
R_TwoFences ==
    <<96, 96, 96, 106, 115, 111, 110, 32, 123, 34, 101, 120, 112, 108, 97,
    110, 97, 116, 105, 111, 110, 34, 58, 34, 97, 34, 44, 34, 97, 99, 116,
    105, 111, 110, 84, 121, 112, 101, 34, 58, 34, 97, 100, 118, 105, 99,
    101, 34, 125, 32, 96, 96, 96, 32, 96, 96, 96, 123, 125, 96, 96, 96>>

\* } then {
R_CloseBeforeOpen ==
    <<125, 32, 116, 104, 101, 110, 32, 123>>

\* {"explanation":"x"
R_OnlyOpen ==
    <<123, 34, 101, 120, 112, 108, 97, 110, 97, 116, 105, 111, 110, 34, 58,
    34, 120, 34>>

\* {not json}
R_NotJson ==
    <<123, 110, 111, 116, 32, 106, 115, 111, 110, 125>>

\* null
R_BareNull ==
    <<110, 117, 108, 108>>

\* (fence)null(fence)
R_FencedNull ==
    <<96, 96, 96, 110, 117, 108, 108, 96, 96, 96>>

\* (fence)5(fence)
R_FencedNumber ==
    <<96, 96, 96, 53, 96, 96, 96>>

\* (fence)json\n[1,2]\n(fence)
R_FencedArray ==
    <<96, 96, 96, 106, 115, 111, 110, 10, 91, 49, 44, 50, 93, 10, 96, 96,
    96>>

\* {}
R_EmptyObject ==
    <<123, 125>>

\* {"explanation":"x","actionType":"delete"}
R_BadAction ==
    <<123, 34, 101, 120, 112, 108, 97, 110, 97, 116, 105, 111, 110, 34, 58,
    34, 120, 34, 44, 34, 97, 99, 116, 105, 111, 110, 84, 121, 112, 101, 34,
    58, 34, 100, 101, 108, 101, 116, 101, 34, 125>>

\* {"explanation":5,"actionType":"advice"}
R_NumberExplanation ==
    <<123, 34, 101, 120, 112, 108, 97, 110, 97, 116, 105, 111, 110, 34, 58,
    53, 44, 34, 97, 99, 116, 105, 111, 110, 84, 121, 112, 101, 34, 58, 34,
    97, 100, 118, 105, 99, 101, 34, 125>>

\* {"explanation":"x","actionType":"advice","robotData":null}
R_NullRobot ==
    <<123, 34, 101, 120, 112, 108, 97, 110, 97, 116, 105, 111, 110, 34, 58,
    34, 120, 34, 44, 34, 97, 99, 116, 105, 111, 110, 84, 121, 112, 101, 34,
    58, 34, 97, 100, 118, 105, 99, 101, 34, 44, 34, 114, 111, 98, 111, 116,
    68, 97, 116, 97, 34, 58, 110, 117, 108, 108, 125>>

\* {"explanation":"x","actionType":"advice","robotData":0}
R_ZeroRobot ==
    <<123, 34, 101, 120, 112, 108, 97, 110, 97, 116, 105, 111, 110, 34, 58,
    34, 120, 34, 44, 34, 97, 99, 116, 105, 111, 110, 84, 121, 112, 101, 34,
    58, 34, 97, 100, 118, 105, 99, 101, 34, 44, 34, 114, 111, 98, 111, 116,
    68, 97, 116, 97, 34, 58, 48, 125>>

\* {"explanation":"x","actionType":"generation","robotData":"r"}
R_StringRobot ==
    <<123, 34, 101, 120, 112, 108, 97, 110, 97, 116, 105, 111, 110, 34, 58,
    34, 120, 34, 44, 34, 97, 99, 116, 105, 111, 110, 84, 121, 112, 101, 34,
    58, 34, 103, 101, 110, 101, 114, 97, 116, 105, 111, 110, 34, 44, 34,
    114, 111, 98, 111, 116, 68, 97, 116, 97, 34, 58, 34, 114, 34, 125>>

\* {"explanation":"x","actionType":"generation","robotData":{}}
R_EmptyRobot ==
    <<123, 34, 101, 120, 112, 108, 97, 110, 97, 116, 105, 111, 110, 34, 58,
    34, 120, 34, 44, 34, 97, 99, 116, 105, 111, 110, 84, 121, 112, 101, 34,
    58, 34, 103, 101, 110, 101, 114, 97, 116, 105, 111, 110, 34, 44, 34,
    114, 111, 98, 111, 116, 68, 97, 116, 97, 34, 58, 123, 125, 125>>

\* {"explanation":"x","actionType":"generation","robotData":{"name":"r1",
\* "links":[],"joints":[],"rootLinkId":"l1"}}
R_NamedRobot ==
    <<123, 34, 101, 120, 112, 108, 97, 110, 97, 116, 105, 111, 110, 34, 58,
    34, 120, 34, 44, 34, 97, 99, 116, 105, 111, 110, 84, 121, 112, 101, 34,
    58, 34, 103, 101, 110, 101, 114, 97, 116, 105, 111, 110, 34, 44, 34,
    114, 111, 98, 111, 116, 68, 97, 116, 97, 34, 58, 123, 34, 110, 97, 109,
    101, 34, 58, 34, 114, 49, 34, 44, 34, 108, 105, 110, 107, 115, 34, 58,
    91, 93, 44, 34, 106, 111, 105, 110, 116, 115, 34, 58, 91, 93, 44, 34,
    114, 111, 111, 116, 76, 105, 110, 107, 73, 100, 34, 58, 34, 108, 49, 34,
    125, 125>>

\* {"explanation":"x","actionType":"generation","robotData":{"links":{"id
\* ":"l1"},"joints":"j"}}
R_LinksNotArray ==
    <<123, 34, 101, 120, 112, 108, 97, 110, 97, 116, 105, 111, 110, 34, 58,
    34, 120, 34, 44, 34, 97, 99, 116, 105, 111, 110, 84, 121, 112, 101, 34,
    58, 34, 103, 101, 110, 101, 114, 97, 116, 105, 111, 110, 34, 44, 34,
    114, 111, 98, 111, 116, 68, 97, 116, 97, 34, 58, 123, 34, 108, 105, 110,
    107, 115, 34, 58, 123, 34, 105, 100, 34, 58, 34, 108, 49, 34, 125, 44,
    34, 106, 111, 105, 110, 116, 115, 34, 58, 34, 106, 34, 125, 125>>

\* {"explanation":"x","actionType":"generation","robotData":{"links":[{"i
\* d":"l1"},null]}}
R_NullLink ==
    <<123, 34, 101, 120, 112, 108, 97, 110, 97, 116, 105, 111, 110, 34, 58,
    34, 120, 34, 44, 34, 97, 99, 116, 105, 111, 110, 84, 121, 112, 101, 34,
    58, 34, 103, 101, 110, 101, 114, 97, 116, 105, 111, 110, 34, 44, 34,
    114, 111, 98, 111, 116, 68, 97, 116, 97, 34, 58, 123, 34, 108, 105, 110,
    107, 115, 34, 58, 91, 123, 34, 105, 100, 34, 58, 34, 108, 49, 34, 125,
    44, 110, 117, 108, 108, 93, 125, 125>>

\* {"explanation":"x","actionType":"generation","robotData":{"links":[{"i
\* d":"l1"}],"joints":[null]}}
R_NullJoint ==
    <<123, 34, 101, 120, 112, 108, 97, 110, 97, 116, 105, 111, 110, 34, 58,
    34, 120, 34, 44, 34, 97, 99, 116, 105, 111, 110, 84, 121, 112, 101, 34,
    58, 34, 103, 101, 110, 101, 114, 97, 116, 105, 111, 110, 34, 44, 34,
    114, 111, 98, 111, 116, 68, 97, 116, 97, 34, 58, 123, 34, 108, 105, 110,
    107, 115, 34, 58, 91, 123, 34, 105, 100, 34, 58, 34, 108, 49, 34, 125,
    93, 44, 34, 106, 111, 105, 110, 116, 115, 34, 58, 91, 110, 117, 108,
    108, 93, 125, 125>>

\* {"explanation":"x","actionType":"generation","robotData":{"links":[{"n
\* ame":"base"}]}}
R_LinkNoId ==
    <<123, 34, 101, 120, 112, 108, 97, 110, 97, 116, 105, 111, 110, 34, 58,
    34, 120, 34, 44, 34, 97, 99, 116, 105, 111, 110, 84, 121, 112, 101, 34,
    58, 34, 103, 101, 110, 101, 114, 97, 116, 105, 111, 110, 34, 44, 34,
    114, 111, 98, 111, 116, 68, 97, 116, 97, 34, 58, 123, 34, 108, 105, 110,
    107, 115, 34, 58, 91, 123, 34, 110, 97, 109, 101, 34, 58, 34, 98, 97,
    115, 101, 34, 125, 93, 125, 125>>

\* {"explanation":"x","actionType":"generation","robotData":{"links":[{"i
\* d":"","name":"base"}]}}
R_LinkEmptyId ==
    <<123, 34, 101, 120, 112, 108, 97, 110, 97, 116, 105, 111, 110, 34, 58,
    34, 120, 34, 44, 34, 97, 99, 116, 105, 111, 110, 84, 121, 112, 101, 34,
    58, 34, 103, 101, 110, 101, 114, 97, 116, 105, 111, 110, 34, 44, 34,
    114, 111, 98, 111, 116, 68, 97, 116, 97, 34, 58, 123, 34, 108, 105, 110,
    107, 115, 34, 58, 91, 123, 34, 105, 100, 34, 58, 34, 34, 44, 34, 110,
    97, 109, 101, 34, 58, 34, 98, 97, 115, 101, 34, 125, 93, 125, 125>>

\* {"explanation":"x","actionType":"modification","robotData":{"joints":[
\* {"name":"hip","type":"revolute"}]}}
R_JointNoId ==
    <<123, 34, 101, 120, 112, 108, 97, 110, 97, 116, 105, 111, 110, 34, 58,
    34, 120, 34, 44, 34, 97, 99, 116, 105, 111, 110, 84, 121, 112, 101, 34,
    58, 34, 109, 111, 100, 105, 102, 105, 99, 97, 116, 105, 111, 110, 34,
    44, 34, 114, 111, 98, 111, 116, 68, 97, 116, 97, 34, 58, 123, 34, 106,
    111, 105, 110, 116, 115, 34, 58, 91, 123, 34, 110, 97, 109, 101, 34, 58,
    34, 104, 105, 112, 34, 44, 34, 116, 121, 112, 101, 34, 58, 34, 114, 101,
    118, 111, 108, 117, 116, 101, 34, 125, 93, 125, 125>>

\* {"explanation":"x","actionType":"generation","robotData":{"links":[{"i
\* d":"l1","mass":2},{"id":"l1","mass":3}],"joints":[{"id":"j1","lowerLim
\* it":0},{"id":"j1","lowerLimit":1}]}}
R_SameIdTwice ==
    <<123, 34, 101, 120, 112, 108, 97, 110, 97, 116, 105, 111, 110, 34, 58,
    34, 120, 34, 44, 34, 97, 99, 116, 105, 111, 110, 84, 121, 112, 101, 34,
    58, 34, 103, 101, 110, 101, 114, 97, 116, 105, 111, 110, 34, 44, 34,
    114, 111, 98, 111, 116, 68, 97, 116, 97, 34, 58, 123, 34, 108, 105, 110,
    107, 115, 34, 58, 91, 123, 34, 105, 100, 34, 58, 34, 108, 49, 34, 44,
    34, 109, 97, 115, 115, 34, 58, 50, 125, 44, 123, 34, 105, 100, 34, 58,
    34, 108, 49, 34, 44, 34, 109, 97, 115, 115, 34, 58, 51, 125, 93, 44, 34,
    106, 111, 105, 110, 116, 115, 34, 58, 91, 123, 34, 105, 100, 34, 58, 34,
    106, 49, 34, 44, 34, 108, 111, 119, 101, 114, 76, 105, 109, 105, 116,
    34, 58, 48, 125, 44, 123, 34, 105, 100, 34, 58, 34, 106, 49, 34, 44, 34,
    108, 111, 119, 101, 114, 76, 105, 109, 105, 116, 34, 58, 49, 125, 93,
    125, 125>>

\* {"explanation":"x","actionType":"generation","robotData":{"links":[{"i
\* d":"l1"},{"id":"l2","mass":0.5}],"joints":[{"id":"j1","type":"revolute
\* ","parentLinkId":"l1","childLinkId":"l2","motorType":"M1"}],"rootLinkI
\* d":"l1"}}
R_TwoLinksOneJoint ==
    <<123, 34, 101, 120, 112, 108, 97, 110, 97, 116, 105, 111, 110, 34, 58,
    34, 120, 34, 44, 34, 97, 99, 116, 105, 111, 110, 84, 121, 112, 101, 34,
    58, 34, 103, 101, 110, 101, 114, 97, 116, 105, 111, 110, 34, 44, 34,
    114, 111, 98, 111, 116, 68, 97, 116, 97, 34, 58, 123, 34, 108, 105, 110,
    107, 115, 34, 58, 91, 123, 34, 105, 100, 34, 58, 34, 108, 49, 34, 125,
    44, 123, 34, 105, 100, 34, 58, 34, 108, 50, 34, 44, 34, 109, 97, 115,
    115, 34, 58, 48, 46, 53, 125, 93, 44, 34, 106, 111, 105, 110, 116, 115,
    34, 58, 91, 123, 34, 105, 100, 34, 58, 34, 106, 49, 34, 44, 34, 116,
    121, 112, 101, 34, 58, 34, 114, 101, 118, 111, 108, 117, 116, 101, 34,
    44, 34, 112, 97, 114, 101, 110, 116, 76, 105, 110, 107, 73, 100, 34, 58,
    34, 108, 49, 34, 44, 34, 99, 104, 105, 108, 100, 76, 105, 110, 107, 73,
    100, 34, 58, 34, 108, 50, 34, 44, 34, 109, 111, 116, 111, 114, 84, 121,
    112, 101, 34, 58, 34, 77, 49, 34, 125, 93, 44, 34, 114, 111, 111, 116,
    76, 105, 110, 107, 73, 100, 34, 58, 34, 108, 49, 34, 125, 125>>

FixedReplies == {
    R_SpecExample, R_Prose, R_NoBraces, R_EmptyFence,
    R_EmptyFenceThenObject, R_FenceNoTag, R_FenceOtherTag,
    R_UnclosedFence, R_TwoFences, R_CloseBeforeOpen, R_OnlyOpen,
    R_NotJson, R_BareNull, R_FencedNull, R_FencedNumber, R_FencedArray,
    R_EmptyObject, R_BadAction, R_NumberExplanation, R_NullRobot,
    R_ZeroRobot, R_StringRobot, R_EmptyRobot, R_NamedRobot,
    R_LinksNotArray, R_NullLink, R_NullJoint, R_LinkNoId, R_LinkEmptyId,
    R_JointNoId, R_SameIdTwice, R_TwoLinksOneJoint
}

\* The pieces the generated replies are made of.
\* null
T_null ==
    <<110, 117, 108, 108>>

\* 0
T_zero ==
    <<48>>

\* 2.5
T_number ==
    <<50, 46, 53>>

\* []
T_emptyVector ==
    <<91, 93>>

\* [0,0,0]
T_zeroVector ==
    <<91, 48, 44, 48, 44, 48, 93>>

\* [1,0,0]
T_xVector ==
    <<91, 49, 44, 48, 44, 48, 93>>

\* [0,2]
T_shortVector ==
    <<91, 48, 44, 50, 93>>

\* [1,2,3]
T_vector ==
    <<91, 49, 44, 50, 44, 51, 93>>

\* (fence)json\n{"explanation":"x","actionType":"generation","robotData":
\* {
T_replyOpen ==
    <<96, 96, 96, 106, 115, 111, 110, 10, 123, 34, 101, 120, 112, 108, 97,
    110, 97, 116, 105, 111, 110, 34, 58, 34, 120, 34, 44, 34, 97, 99, 116,
    105, 111, 110, 84, 121, 112, 101, 34, 58, 34, 103, 101, 110, 101, 114,
    97, 116, 105, 111, 110, 34, 44, 34, 114, 111, 98, 111, 116, 68, 97, 116,
    97, 34, 58, 123>>

\* }}\n(fence)
T_replyClose ==
    <<125, 125, 10, 96, 96, 96>>

\* "joints":[{"id":"j1"
T_jointOpen ==
    <<34, 106, 111, 105, 110, 116, 115, 34, 58, 91, 123, 34, 105, 100, 34,
    58, 34, 106, 49, 34>>

\* "links":[{"id":"l1"
T_linkOpen ==
    <<34, 108, 105, 110, 107, 115, 34, 58, 91, 123, 34, 105, 100, 34, 58,
    34, 108, 49, 34>>

\* }]
T_listClose ==
    <<125, 93>>

\* ,"name":value, or nothing when the field is absent (value = <<>>).
Field(name, value) ==
    IF value = <<>> THEN <<>>
    ELSE <<44, 34>> \o name \o <<34, 58>> \o value

\* What a nullable numeric field may hold: absent, null, 0, 2.5.
NumberTexts == {<<>>, T_null, T_zero, T_number}

\* What a vector field may hold.
VectorTexts == {<<>>, T_emptyVector, T_zeroVector, T_xVector, T_shortVector}

\* A reply with one joint j1 and the four limit fields as given.
LimitReply(lower, upper, effort, velocity) ==
    T_replyOpen \o T_jointOpen
        \o Field(P_lowerLimit, lower) \o Field(P_upperLimit, upper)
        \o Field(P_effortLimit, effort) \o Field(P_velocityLimit, velocity)
        \o T_listClose \o T_replyClose

\* A reply with one joint j1 and the three vector fields as given.
VectorReply(xyz, rpy, axis) ==
    T_replyOpen \o T_jointOpen
        \o Field(P_originXYZ, xyz) \o Field(P_originRPY, rpy)
        \o Field(P_axis, axis)
        \o T_listClose \o T_replyClose

\* A reply with one link l1, its dimensions and mass as given.
LinkReply(dimensions, mass) ==
    T_replyOpen \o T_linkOpen
        \o Field(P_dimensions, dimensions) \o Field(P_mass, mass)
        \o T_listClose \o T_replyClose

GeneratedReplies ==
    {LimitReply(a, b, c, a) : a \in NumberTexts, b \in NumberTexts,
                              c \in NumberTexts}
    \cup {VectorReply(a, b, c) : a \in VectorTexts,
                                 b \in {<<>>, T_zeroVector, T_xVector},
                                 c \in VectorTexts}
    \cup {LinkReply(d, m) : d \in VectorTexts \cup {T_null, T_vector},
                            m \in NumberTexts}

ReplyTexts == FixedReplies \cup GeneratedReplies

\* How the awaited generateContent call settles: it rejects, or it
\* fulfils with a response whose `text` is undefined or a string.
Responses ==
    {[kind |-> "rejected", text |-> Undefined],
     [kind |-> "fulfilled", text |-> Undefined],
     [kind |-> "fulfilled", text |-> Str(<<>>)]}
    \cup {[kind |-> "fulfilled", text |-> Str(t)] : t \in ReplyTexts}

NoResponse == [kind |-> "none", text |-> Undefined]

(***************************************************************************)
(* generateRobotFromPrompt                                                 *)
(***************************************************************************)
Pending == [t |-> "pending"]

\* The same with the prompt compared as typed, not trimmed.
EggMatchUntrimmed(p) ==
    LET hits == {n \in 1..Len(EGGS) : p = b64DecodeUnicode(EGGS[n][1])}
    IN  IF hits = {} THEN 0 ELSE CHOOSE n \in hits : \A m \in hits : n <= m

\* The first entry of EGGS whose decoded key is the trimmed prompt, or 0.
EggMatch(p) ==
    LET trimPrompt == Trim(p)
        hits == {n \in 1..Len(EGGS) : trimPrompt = b64DecodeUnicode(EGGS[n][1])}
    IN  IF hits = {} THEN 0 ELSE CHOOSE n \in hits : \A m \in hits : n <= m

\* The same with only an unset variable taken as missing.
ApiKeyUnset(key) == key.t = "undefined"

\* if (!process.env.API_KEY)
ApiKeyMissing(key) == ~Truthy(key)

\* A catch block that hands back an empty answer instead of null.
OnCatchEmptyAnswer == [t |-> "AIResponse", explanation |-> Undefined,
                       actionType |-> Undefined, robotData |-> Undefined]

\* What the catch block returns.
OnCatch == Null

\* The value of the local `jsonString` once the call has settled with r
\* (it stays '' when the function returns before the extraction).
Candidate(r) ==
    IF r.kind = "fulfilled" /\ Truthy(r.text)
    THEN ExtractJson(r.text.v)
    ELSE <<>>

NotParsed == [threw |-> FALSE, value |-> Undefined]

\* Line 185, reached only with a candidate that is not empty.
ParseCandidate(candidate) ==
    IF candidate = <<>> THEN NotParsed ELSE JsonParse(candidate)

\* Lines 156-270: what the function returns once the call has settled with
\* r, the extraction gave `candidate` and JSON.parse ended as `res`.
Settle(r, candidate, res) ==
    IF r.kind = "rejected" THEN OnCatch
    ELSE IF ~Truthy(r.text) THEN Null
    ELSE IF candidate = <<>> THEN Null
    ELSE IF res.threw THEN OnCatch
    ELSE IF MapResult(res.value).threw THEN OnCatch
    ELSE MapResult(res.value).value

Init ==
    /\ pc = "idle"
    /\ prompt = <<>>
    /\ apiKey = Undefined
    /\ requests = 0
    /\ steps = <<>>
    /\ response = NoResponse
    /\ jsonString = <<>>
    /\ result = NotParsed
    /\ returned = Pending

\* A caller invokes generateRobotFromPrompt(prompt, ...).
Invoke(p, key) ==
    /\ pc = "idle"
    /\ pc' = "eggs"
    /\ prompt' = p
    /\ apiKey' = key
    /\ requests' = 0
    /\ steps' = <<>>
    /\ response' = NoResponse
    /\ jsonString' = <<>>
    /\ result' = NotParsed
    /\ returned' = Pending

\* Lines 42-52.
EasterEggCheck ==
    /\ pc = "eggs"
    /\ steps' = Append(steps, "eggs")
    /\ IF EggMatch(prompt) # 0
       THEN /\ returned' = AIResponse(
                            Str(b64DecodeUnicode(EGGS[EggMatch(prompt)][2])),
                            Str(S_advice), Undefined)
            /\ pc' = "done"
       ELSE /\ returned' = returned
            /\ pc' = "key"
    /\ UNCHANGED <<prompt, apiKey, requests, response, jsonString, result>>

\* Lines 54-60.
ApiKeyCheck ==
    /\ pc = "key"
    /\ steps' = Append(steps, "key")
    /\ IF ApiKeyMissing(apiKey)
       THEN /\ returned' = AIResponse(Str(S_ApiKeyMissing), Str(S_advice),
                                    Undefined)
            /\ pc' = "done"
       ELSE /\ returned' = returned
            /\ pc' = "request"
    /\ UNCHANGED <<prompt, apiKey, requests, response, jsonString, result>>

\* The same with the call made a second time.
DispatchTwice ==
    /\ pc = "request"
    /\ steps' = Append(steps, "request")
    /\ requests' = requests + 2
    /\ pc' = "awaiting"
    /\ UNCHANGED <<prompt, apiKey, response, jsonString, result, returned>>

\* Lines 62-165: the client, the context, the schema, and the one call of
\* ai.models.generateContent, on which the function then waits.
Dispatch ==
    /\ pc = "request"
    /\ steps' = Append(steps, "request")
    /\ requests' = requests + 1
    /\ pc' = "awaiting"
    /\ UNCHANGED <<prompt, apiKey, response, jsonString, result, returned>>

\* Lines 156-270: the call settles and the function runs to its return.
Receive(r) ==
    /\ pc = "awaiting"
    /\ steps' = Append(steps, "settle")
    /\ response' = r
    /\ jsonString' = Candidate(r)
    /\ result' = ParseCandidate(jsonString')
    /\ returned' = Settle(r, jsonString', result')
    /\ pc' = "done"
    /\ UNCHANGED <<prompt, apiKey, requests>>

\* The caller takes the settled value; the invocation and its locals are gone.
Return ==
    /\ pc = "done"
    /\ pc' = "idle"
    /\ prompt' = <<>>
    /\ apiKey' = Undefined
    /\ requests' = 0
    /\ steps' = <<>>
    /\ response' = NoResponse
    /\ jsonString' = <<>>
    /\ result' = NotParsed
    /\ returned' = Pending

Next ==
    \/ \E p \in Prompts, key \in ApiKeys : Invoke(p, key)
    \/ EasterEggCheck
    \/ ApiKeyCheck
    \/ Dispatch
    \/ \E r \in Responses : Receive(r)
    \/ Return

Spec == Init /\ [][Next]_vars

(***************************************************************************)
(* Properties                                                              *)
(***************************************************************************)
\* The trigger phrases and their answers, written out.
TriggerPhrases == <<
    \* 达妙科技 : 发来贺电
    <<<<36798, 22937, 31185, 25216>>,
      <<21457, 26469, 36154, 30005>>>>,
    \* 灵足时代 : 祝你成功
    <<<<28789, 36275, 26102, 20195>>,
      <<31069, 20320, 25104, 21151>>>>,
    \* 因克斯智能 : 祝老板好帅！
    <<<<22240, 20811, 26031, 26234, 33021>>,
      <<31069, 32769, 26495, 22909, 24069, 65281>>>>,
    \* 高擎机电 : 我爱小派！
    <<<<39640, 25806, 26426, 30005>>,
      <<25105, 29233, 23567, 27966, 65281>>>>,
    \* 地瓜机乙人 : 发来烨地瓜
    <<<<22320, 29916, 26426, 20057, 20154>>,
      <<21457, 26469, 28904, 22320, 29916>>>>
>>

\* p is k with nothing but whitespace before and after it.
TrimsTo(p, k) ==
    \E a \in 0..Len(p) :
        /\ a + Len(k) <= Len(p)
        /\ SubSeq(p, a + 1, a + Len(k)) = k
        /\ \A i \in 1..a : p[i] \in JsWhitespace
        /\ \A i \in (a + Len(k) + 1)..Len(p) : p[i] \in JsWhitespace

IsTrigger(p) == \E n \in 1..Len(TriggerPhrases) : TrimsTo(p, TriggerPhrases[n][1])

Advice(text) ==
    [t |-> "AIResponse", explanation |-> Str(text),
     actionType |-> Str(S_advice), robotData |-> Undefined]

\* The invocation returned from the trigger check.
TookTriggerPath == pc = "done" /\ steps = <<"eggs">>

\* C2: a prompt that is a trigger phrase once trimmed is answered with the
\* phrase's answer as advice, with no robot data and no request, whatever
\* the credential; no other prompt returns from the trigger check.
C2_TriggerAnswered ==
    pc = "done" =>
        /\ \A n \in 1..Len(TriggerPhrases) :
              TrimsTo(prompt, TriggerPhrases[n][1]) =>
                  /\ returned = Advice(TriggerPhrases[n][2])
                  /\ requests = 0
                  /\ response = NoResponse
                  /\ TookTriggerPath
        /\ TookTriggerPath => IsTrigger(prompt)

\* A padded trigger phrase was answered although a credential is set.
C2_Witness ==
    /\ pc = "done"
    /\ TrimsTo(prompt, TriggerPhrases[3][1])
    /\ Len(prompt) > Len(TriggerPhrases[3][1])
    /\ Truthy(apiKey)
    /\ returned = Advice(TriggerPhrases[3][2])

\* C5: with no trigger phrase and no credential the answer is the fixed
\* advice, with no robot data and no request; it is never null.
C5_MissingCredential ==
    pc = "done" /\ ~IsTrigger(prompt) /\ ~Truthy(apiKey) =>
        /\ returned = Advice(S_ApiKeyMissing)
        /\ requests = 0
        /\ response = NoResponse

\* The credential was the empty string and the fixed advice came back.
C5_Witness ==
    /\ pc = "done"
    /\ ~IsTrigger(prompt)
    /\ apiKey = Str(<<>>)
    /\ returned = Advice(S_ApiKeyMissing)

IsPrefix(s, t) == Len(s) <= Len(t) /\ s = SubSeq(t, 1, Len(s))

\* C10: the steps come in the order trigger check, credential check,
\* request; an invocation makes one request when no trigger matches and a
\* credential is set and none otherwise, also when the request failed or the
\* reply could not be used.
C10_OneRequest ==
    /\ IsPrefix(steps, <<"eggs", "key", "request", "settle">>)
    /\ requests = Len(SelectSeq(steps, LAMBDA x : x = "request"))
    /\ pc = "done" =>
          requests = IF ~IsTrigger(prompt) /\ Truthy(apiKey) THEN 1 ELSE 0

\* The request failed and the invocation ended with the one request made.
C10_Witness ==
    /\ pc = "done"
    /\ response.kind = "rejected"
    /\ returned = Null
    /\ requests = 1

\* The reply arrived and has a text.
HasText == response.kind = "fulfilled" /\ Truthy(response.text)

\* The answer is an AIResponse carrying a robot.
HasRobot ==
    /\ pc = "done"
    /\ returned.t = "AIResponse"
    /\ returned.robotData.t = "RobotState"

\* The descriptors listed under `field` of the parsed robotData.
Descriptors(field) ==
    LET list == Get(Get(result.value, P_robotData), field)
    IN  IF list.t = "array" THEN list.v ELSE <<>>

\* The key a descriptor is stored under.
KeyOf(d) == JsToString(Get(d, P_id))

\* No later descriptor of the list has the key of the n-th.
IsLast(list, n) == \A m \in (n + 1)..Len(list) : KeyOf(list[m]) # KeyOf(list[n])

\* The parsed reply makes the mapping dereference null or undefined.
MappingThrows ==
    \/ result.value.t = "null"
    \/ /\ Truthy(Get(result.value, P_robotData))
       /\ \E field \in {P_links, P_joints} :
             \E n \in 1..Len(Descriptors(field)) : IsNullish(Descriptors(field)[n])

\* C3: after the request has started, a failed request, a reply without
\* text, a text that does not parse and a mapping that throws all end in
\* null; the invocation ends in null or in a whole answer.
C3_FailureIsNull ==
    pc = "done" /\ requests > 0 =>
        /\ response.kind = "rejected" => returned = Null
        /\ response.kind = "fulfilled" /\ ~Truthy(response.text) => returned = Null
        /\ HasText /\ jsonString # <<>> /\ result.threw => returned = Null
        /\ HasText /\ jsonString # <<>> /\ ~result.threw /\ MappingThrows =>
              returned = Null
        /\ returned.t \in {"null", "AIResponse"}

\* A null among the links made the mapping throw and null came back.
C3_Witness ==
    /\ pc = "done"
    /\ HasText
    /\ ~result.threw
    /\ Get(result.value, P_robotData).t = "object"
    /\ \E n \in 1..Len(Descriptors(P_links)) : Descriptors(P_links)[n].t = "null"
    /\ returned = Null

\* The positions at which three backticks start.
Fences(text) == {i \in 1..Len(text) : HasAt(text, i, S_fence)}

\* Where the body of a block opened at i starts: after the fence and the
\* tag json, if it is there.
BodyStart(text, i) == IF HasAt(text, i + 3, S_json) THEN i + 7 ELSE i + 3

Least(S) == CHOOSE x \in S : \A y \in S : x <= y
Greatest(S) == CHOOSE x \in S : \A y \in S : x >= y

\* The first fence that is followed by a closing one.
Opened(text) ==
    {i \in Fences(text) : \E j \in Fences(text) : j >= BodyStart(text, i)}

\* The text from the first opening brace to the last closing brace.
BraceSpan(text) ==
    LET opens == {i \in 1..Len(text) : text[i] = 123}
        closes == {i \in 1..Len(text) : text[i] = 125}
    IN  IF opens # {} /\ closes # {} /\ Greatest(closes) > Least(opens)
        THEN SubSeq(text, Least(opens), Greatest(closes))
        ELSE <<>>

\* The candidate the reply text is to give: the body of the first fenced
\* block without the whitespace around it, else the brace span.
ExpectedCandidate(text) ==
    IF Opened(text) # {}
    THEN LET start == BodyStart(text, Least(Opened(text)))
             close == Least({j \in Fences(text) : j >= start})
         IN  Trim(SubSeq(text, start, close - 1))
    ELSE BraceSpan(text)

\* C4: the candidate is the inner content of the first fenced block, with
\* or without the tag json; without a fenced block it is the text from the
\* first opening to the last closing brace; with neither there is no
\* candidate and the answer is null.
C4_CandidateOrder ==
    pc = "done" /\ HasText =>
        /\ jsonString = ExpectedCandidate(response.text.v)
        /\ jsonString = <<>> => returned = Null

\* A fenced block was taken although braces stand outside it.
C4_Witness ==
    /\ pc = "done"
    /\ HasText
    /\ Opened(response.text.v) # {}
    /\ jsonString # <<>>
    /\ BraceSpan(response.text.v) # <<>>
    /\ BraceSpan(response.text.v) # jsonString
    /\ returned.t = "AIResponse"

EmptyRobot ==
    [t |-> "RobotState", name |-> Str(S_modified_robot), links |-> EmptyRecord,
     joints |-> EmptyRecord, rootLinkId |-> Undefined]

\* C8: a parsed reply whose robotData is absent or null gives an answer
\* without robot data; one whose robotData is an empty object gives a robot
\* with no links, no joints and the name modified_robot.
C8_AbsentOrEmptyRobot ==
    pc = "done" /\ returned.t = "AIResponse" /\ requests > 0 =>
        LET data == Get(result.value, P_robotData)
        IN  /\ IsNullish(data) => returned.robotData = Undefined
            /\ data.t = "object" /\ data.v = <<>> => returned.robotData = EmptyRobot

\* The reply's robotData was the empty object and the empty robot came back.
C8_Witness ==
    /\ pc = "done"
    /\ returned.t = "AIResponse"
    /\ Get(result.value, P_robotData).t = "object"
    /\ Get(result.value, P_robotData).v = <<>>
    /\ returned.robotData = EmptyRobot

\* A limit is the descriptor's number, or the default when the descriptor
\* has null or nothing there.
LimitIs(value, default, out) ==
    /\ IsNullish(value) => out = default
    /\ value.t = "number" => out = value

\* C9: lower, upper, effort and velocity limit of a joint are -1.57, 1.57,
\* 100 and 10 only when the descriptor's value is null or absent; a number,
\* zero too, is kept.
C9_LimitDefaults ==
    HasRobot =>
        \A n \in 1..Len(Descriptors(P_joints)) :
            LET joints == Descriptors(P_joints)
                j == joints[n]
                limit == returned.robotData.joints[KeyOf(j)].limit
            IN  IsLast(joints, n) =>
                    /\ LimitIs(Get(j, P_lowerLimit), Num(-157), limit.lower)
                    /\ LimitIs(Get(j, P_upperLimit), Num(157), limit.upper)
                    /\ LimitIs(Get(j, P_effortLimit), Num(10000), limit.effort)
                    /\ LimitIs(Get(j, P_velocityLimit), Num(1000), limit.velocity)

\* A joint came back with the lower limit 0 it was given and a default for
\* a limit it was not given.
C9_Witness ==
    /\ HasRobot
    /\ \E n \in 1..Len(Descriptors(P_joints)) :
          LET j == Descriptors(P_joints)[n]
              limit == returned.robotData.joints[KeyOf(j)].limit
          IN  /\ Get(j, P_lowerLimit) = Num(0)
              /\ limit.lower = Num(0)
              /\ Get(j, P_effortLimit).t = "undefined"
              /\ limit.effort = Num(10000)

\* A number the descriptor gives is the number that comes back.
Kept(value, out) == value.t = "number" => out = value

VectorKept(vector, out) ==
    /\ Kept(OptIndex(vector, 0), out.x)
    /\ Kept(OptIndex(vector, 1), out.y)
    /\ Kept(OptIndex(vector, 2), out.z)

AnglesKept(vector, out) ==
    /\ Kept(OptIndex(vector, 0), out.r)
    /\ Kept(OptIndex(vector, 1), out.p)
    /\ Kept(OptIndex(vector, 2), out.y)

\* C1: a number given for dimensions, mass, origin, axis or a limit, zero
\* included, is the number in the robot; defaults are for fields not given.
C1_ZeroIsKept ==
    HasRobot =>
        /\ \A n \in 1..Len(Descriptors(P_links)) :
              LET links == Descriptors(P_links)
                  l == links[n]
                  link == returned.robotData.links[KeyOf(l)]
              IN  IsLast(links, n) =>
                      /\ VectorKept(Get(l, P_dimensions), link.visual.dimensions)
                      /\ VectorKept(Get(l, P_dimensions), link.collision.dimensions)
                      /\ Kept(Get(l, P_mass), link.inertial.mass)
        /\ \A n \in 1..Len(Descriptors(P_joints)) :
              LET joints == Descriptors(P_joints)
                  j == joints[n]
                  joint == returned.robotData.joints[KeyOf(j)]
              IN  IsLast(joints, n) =>
                      /\ VectorKept(Get(j, P_originXYZ), joint.origin.xyz)
                      /\ AnglesKept(Get(j, P_originRPY), joint.origin.rpy)
                      /\ VectorKept(Get(j, P_axis), joint.axis)
                      /\ Kept(Get(j, P_lowerLimit), joint.limit.lower)
                      /\ Kept(Get(j, P_upperLimit), joint.limit.upper)
                      /\ Kept(Get(j, P_effortLimit), joint.limit.effort)
                      /\ Kept(Get(j, P_velocityLimit), joint.limit.velocity)

\* C6: an answer that is not null has an actionType among modification,
\* generation and advice and a string as explanation.
C6_AnswerWellTyped ==
    pc = "done" /\ returned.t = "AIResponse" =>
        /\ returned.explanation.t = "string"
        /\ returned.actionType.t = "string"
        /\ returned.actionType.v \in {S_modification, S_generation, S_advice}

\* The entries of a map of the robot have a non-empty string as id and are
\* stored under it.
KeyedById(map) ==
    \A key \in DOMAIN map :
        /\ map[key].id.t = "string"
        /\ map[key].id.v # <<>>
        /\ map[key].id.v = key

\* C7: every link and joint of a returned robot has a non-empty id and is
\* stored under that id.
C7_IdsNonEmpty ==
    HasRobot =>
        /\ KeyedById(returned.robotData.links)
        /\ KeyedById(returned.robotData.joints)

=============================================================================
